---- MODULE Spec2Model ----
(***************************************************************************)
(* A model of the DonDominio DNS-01 webhook solver (main.go) and of the    *)
(* HTTP client it uses (dondominio.go).                                    *)
(*                                                                         *)
(* Strings are sequences of one-character strings, so that the domain      *)
(* parser is computed character by character, as the Go code computes it.  *)
(***************************************************************************)
EXTENDS Integers, Sequences, FiniteSets, TLC

VARIABLES
    dp,         \* the domain parser run on its own
    ur,         \* UnmarshalResponse run on its own
    rq,         \* NewRequest run on its own
    td,         \* one Client's time-delta cache and the callers of getTimeDelta
    client,     \* ddDNSProviderSolver.client, the cluster client handle
    inv,        \* the Present and CleanUp invocations in flight
    zone,       \* the DNS records held by the provider
    nextId,     \* the next entity ID the provider assigns
    cleaned     \* history: the proof values whose CleanUp has returned nil

vars == <<dp, ur, rq, td, client, inv, zone, nextId, cleaned>>

solverVars == <<client, inv, zone, nextId, cleaned>>

(***************************************************************************)
(* Bounds of the model                                                     *)
(***************************************************************************)
\* FQDNs handed to the domain parser have at most this many labels.
MaxLabels == 5
\* The provider creates at most this many records in one behaviour.
MaxRecords == 2

\* The value of dp in the specifications that do not run the parser.
ParserIdle == [pc |-> "off", fqdn |-> <<>>, domain |-> <<>>, subDomain |-> <<>>]

\* The value of rq in the specifications that do not run NewRequest.
RequestIdle == [pc |-> "off"]

\* The value of td in the specifications that do not run getTimeDelta.
TimeDeltaIdle == [pc |-> "off"]

(***************************************************************************)
(* Strings                                                                 *)
(***************************************************************************)
Dot == "."

\* s[from:] of Go, with a 0-based offset.
GoSliceFrom(s, from) == SubSeq(s, from + 1, Len(s))

\* s[:to] of Go, with a 0-based offset.
GoSliceTo(s, to) == SubSeq(s, 1, to)

\* strings.HasPrefix(s[at:], pat), with a 0-based offset.
MatchesAt(s, pat, at) ==
    /\ at + Len(pat) <= Len(s)
    /\ \A k \in 1..Len(pat) : s[at + k] = pat[k]

\* strings.Index(s, pat): the 0-based offset of the first occurrence, or -1.
StringsIndex(s, pat) ==
    LET hits == {at \in 0..Len(s) : MatchesAt(s, pat, at)}
    IN  IF hits = {} THEN -1
        ELSE CHOOSE at \in hits : \A other \in hits : at <= other

\* util.UnFqdn: the name without one trailing dot.
UnFqdn(name) ==
    IF Len(name) # 0 /\ name[Len(name)] = Dot
    THEN SubSeq(name, 1, Len(name) - 1)
    ELSE name

(***************************************************************************)
(* The domain parser (main.go)                                             *)
(***************************************************************************)
\* The loop of getDomain: n runs down from len(domain) while fewer than two
\* dots have been seen; the result is the pair <<n, i>> at loop exit.
RECURSIVE getDomainScan(_, _, _)
getDomainScan(domain, n, i) ==
    IF n > 0 /\ i < 2
    THEN getDomainScan(domain, n - 1, IF domain[n] = Dot THEN i + 1 ELSE i)
    ELSE <<n, i>>

\* A getDomain that keeps the dot in front of the two labels (domain[n:]).
getDomainKeepDot(fqdn) ==
    LET domain == UnFqdn(fqdn)
        at     == getDomainScan(domain, Len(domain), 0)
    IN  IF at[2] = 2 THEN GoSliceFrom(domain, at[1]) ELSE domain

getDomain(fqdn) ==
    LET domain == UnFqdn(fqdn)
        at     == getDomainScan(domain, Len(domain), 0)
    IN  IF at[2] = 2 THEN GoSliceFrom(domain, at[1] + 1) ELSE domain

getSubDomain(domain, fqdn) ==
    LET idx == StringsIndex(fqdn, <<Dot>> \o domain)
    IN  IF idx # -1 THEN GoSliceTo(fqdn, idx) ELSE UnFqdn(fqdn)

(***************************************************************************)
(* The HTTP client (dondominio.go)                                         *)
(***************************************************************************)
StatusOK == 200
StatusMultipleChoices == 300

\* Errors are records; NoErr is Go's nil error.
NoErr == [kind |-> "nil"]
ReadErr == [kind |-> "read"]
TransportErr == [kind |-> "transport"]
DecodeErr == [kind |-> "decode"]
NewAPIError(code, message, queryID) ==
    [kind |-> "api", Code |-> code, Message |-> message, QueryID |-> queryID]

\* A response body is empty, text that is no JSON, or a JSON object. A JSON
\* object carries the fields an error payload has (message) and the fields a
\* result has (data).
EmptyBody == [form |-> "empty"]
TextBody(text) == [form |-> "text", text |-> text]
JsonBody(message, data) == [form |-> "json", message |-> message, data |-> data]

\* len(body) of UnmarshalResponse, as far as the code looks at it.
BodyIsEmpty(body) == body.form = "empty"

\* string(body)
BodyText(body) ==
    CASE body.form = "empty" -> ""
      [] body.form = "text"  -> body.text
      [] OTHER               -> "{json}"

\* json.Unmarshal(body, apiError): whether it succeeds, and the message it
\* leaves in the error.
DecodeAPIError(body) ==
    IF body.form = "json"
    THEN [ok |-> TRUE, Message |-> body.message]
    ELSE [ok |-> FALSE, Message |-> ""]

\* The status test of UnmarshalResponse with the upper end off by one.
IsAPIErrorStatusOffByOne(code) == code < StatusOK \/ code > StatusMultipleChoices

\* "< 200 && >= 300 : API error"
IsAPIErrorStatus(code) == code < StatusOK \/ code >= StatusMultipleChoices

\* A resType is NilOut (a nil interface) or a pointer to a value; Out(v) is
\* the pointer whose target holds v.
NilOut == [isNil |-> TRUE, value |-> "none"]
Out(v) == [isNil |-> FALSE, value |-> v]

\* Client.UnmarshalResponse: the error returned and resType afterwards.
UnmarshalResponse(response, resType) ==
    IF ~response.readOk
    THEN [err |-> ReadErr, out |-> resType]
    ELSE IF IsAPIErrorStatus(response.StatusCode)
    THEN LET decoded == DecodeAPIError(response.body)
             message == IF decoded.ok THEN decoded.Message
                        ELSE BodyText(response.body)
         IN  [err |-> NewAPIError(response.StatusCode, message, response.queryID),
              out |-> resType]
    ELSE IF BodyIsEmpty(response.body) \/ resType.isNil
    THEN [err |-> NoErr, out |-> resType]
    ELSE IF response.body.form = "json"
    THEN [err |-> NoErr, out |-> Out(response.body.data)]
    ELSE [err |-> DecodeErr, out |-> resType]

\* Client.CallAPIWithContext after NewRequest: Do fails with a transport
\* error, or the response is unmarshalled.
CallAPI(sent, response, resType) ==
    IF ~sent
    THEN [err |-> TransportErr, out |-> resType]
    ELSE UnmarshalResponse(response, resType)

(***************************************************************************)
(* Building a request (dondominio.go, NewRequest)                          *)
(***************************************************************************)
\* url.Values: a function from the keys it holds to the list of the values
\* of each. Keys are whole strings, values sequences of characters.
NoValues == [k \in {} |-> <<>>]

\* A reqBody is nil, a struct with schema-tagged fields, or a value the
\* schema encoder refuses (it encodes structs only).
NilBody == [kind |-> "nil"]
NotAStruct == [kind |-> "notstruct"]
StructBody(fields) == [kind |-> "struct", fields |-> fields]

EncodeErr == [kind |-> "encode"]
RequestErr == [kind |-> "new-request"]

\* encoder.Encode(reqBody, body): every field is appended under its tag.
SchemaEncode(reqBody, body) ==
    IF reqBody.kind # "struct"
    THEN [err |-> EncodeErr, body |-> body]
    ELSE [err |-> NoErr,
          body |-> [k \in (DOMAIN body) \cup (DOMAIN reqBody.fields) |->
                        (IF k \in DOMAIN body THEN body[k] ELSE <<>>)
                            \o (IF k \in DOMAIN reqBody.fields
                                THEN <<reqBody.fields[k]>> ELSE <<>>)]]

\* A url.Values.Add in the place of Set: the value is appended.
ValuesAdd(v, key, value) ==
    [k \in (DOMAIN v) \cup {key} |->
        IF k = key
        THEN (IF k \in DOMAIN v THEN v[k] ELSE <<>>) \o <<value>>
        ELSE v[k]]

\* url.Values.Set: the key holds the one value afterwards.
ValuesSet(v, key, value) ==
    [k \in (DOMAIN v) \cup {key} |-> IF k = key THEN <<value>> ELSE v[k]]

\* url.QueryEscape, one character at a time: a space becomes "+", a
\* character that is not unreserved becomes its percent-encoding (one token
\* of the encoded body here).
EscapeChar(c) ==
    CASE c = " " -> "+"
      [] c = "+" -> "%2B"
      [] c = "&" -> "%26"
      [] c = "=" -> "%3D"
      [] c = "%" -> "%25"
      [] OTHER   -> c

QueryEscape(str) == [i \in 1..Len(str) |-> EscapeChar(str[i])]

\* The keys of the model in the order in which url.Values.Encode sorts them.
SortedKeys == <<"apipasswd", "apiuser", "serviceName">>

\* key=value&key=value for the values of one key.
RECURSIVE EncodeKey(_, _)
EncodeKey(key, values) ==
    IF values = <<>> THEN <<>>
    ELSE <<key, "=">> \o QueryEscape(Head(values))
            \o (IF Tail(values) = <<>> THEN <<>>
                ELSE <<"&">> \o EncodeKey(key, Tail(values)))

\* url.Values.Encode from the i-th sorted key on.
RECURSIVE EncodeFrom(_, _)
EncodeFrom(v, i) ==
    IF i > Len(SortedKeys) THEN <<>>
    ELSE LET key  == SortedKeys[i]
             this == IF key \in DOMAIN v THEN EncodeKey(key, v[key]) ELSE <<>>
             rest == EncodeFrom(v, i + 1)
         IN  IF this = <<>> THEN rest
             ELSE IF rest = <<>> THEN this
             ELSE this \o <<"&">> \o rest

ValuesEncode(v) == EncodeFrom(v, 1)

\* The methods http.NewRequest accepts; it refuses a method that is no token.
ValidMethods == {"GET", "POST", "PUT", "DELETE"}

\* The endpoints whose URL http.NewRequest parses.
ValidEndpoints == {"https://simple-api.dondominio.net"}

UserAgentOf(c) ==
    IF c.UserAgent # ""
    THEN <<"github.com/galgus/go-dd (", c.UserAgent, ")">>
    ELSE <<"github.com/galgus/go-dd">>

NoRequest == [method |-> "", target |-> <<>>, body |-> <<>>, headers |-> <<>>]

\* Client.NewRequest: the request and the error.
NewRequest(c, method, path, reqBody) ==
    LET encoded == IF reqBody.kind # "nil"
                   THEN SchemaEncode(reqBody, NoValues)
                   ELSE [err |-> NoErr, body |-> NoValues]
        body    == ValuesSet(ValuesSet(encoded.body, "apiuser", c.AppKey),
                             "apipasswd", c.AppSecret)
    IN  IF encoded.err # NoErr
        THEN [req |-> NoRequest, err |-> encoded.err]
        ELSE IF method \notin ValidMethods \/ c.endpoint \notin ValidEndpoints
        THEN [req |-> NoRequest, err |-> RequestErr]
        ELSE [req |-> [method |-> method,
                       target |-> <<c.endpoint, path>>,
                       body |-> ValuesEncode(body),
                       headers |->
                          [ContentType |->
                              "application/x-www-form-urlencoded;charset=utf-8",
                           Accept |-> "application/json",
                           UserAgent |-> UserAgentOf(c)]],
              err |-> NoErr]

(***************************************************************************)
(* Configuration and credentials (main.go)                                 *)
(***************************************************************************)
Newline == "\n"

\* strings.TrimSuffix(s, suffix)
TrimSuffix(s, suffix) ==
    IF Len(s) >= Len(suffix) /\ MatchesAt(s, suffix, Len(s) - Len(suffix))
    THEN SubSeq(s, 1, Len(s) - Len(suffix))
    ELSE s

\* ddDNSProviderConfig{}: the config every field of which is empty.
EmptyConfig ==
    [Endpoint |-> "", ApplicationKey |-> "",
     ApplicationSecretRef |-> [Name |-> "", Key |-> ""]]

\* ch.Config is nil, JSON that does not decode, or the JSON of a config.
NilJSON == [form |-> "nil"]
MalformedJSON == [form |-> "malformed"]
ConfigJSON(cfg) == [form |-> "json", cfg |-> cfg]

ConfigDecodeErr == [kind |-> "config-decode"]

loadConfig(cfgJSON) ==
    IF cfgJSON.form = "nil" THEN [cfg |-> EmptyConfig, err |-> NoErr]
    ELSE IF cfgJSON.form = "malformed"
    THEN [cfg |-> EmptyConfig, err |-> ConfigDecodeErr]
    ELSE [cfg |-> cfgJSON.cfg, err |-> NoErr]

MissingField(what) == [kind |-> "missing-field", what |-> what]

\* A validate that does not look at the secret reference.
validateWithoutSecretRef(cfg, allowAmbientCredentials) ==
    IF allowAmbientCredentials THEN NoErr
    ELSE IF cfg.Endpoint = "" THEN MissingField("endpoint")
    ELSE IF cfg.ApplicationKey = "" THEN MissingField("application key")
    ELSE NoErr

validate(cfg, allowAmbientCredentials) ==
    IF allowAmbientCredentials THEN NoErr
    ELSE IF cfg.Endpoint = "" THEN MissingField("endpoint")
    ELSE IF cfg.ApplicationKey = "" THEN MissingField("application key")
    ELSE IF cfg.ApplicationSecretRef.Name = ""
    THEN MissingField("application secret")
    ELSE NoErr

\* The secrets of the cluster: one secret, in one namespace, whose keys hold
\* values with no, one and two trailing newlines.
SecretNamespace == "cert-manager"
SecretName == "dd-credentials"
SecretData ==
    [plain   |-> <<"s">>,
     newline |-> <<"s", Newline>>,
     twice   |-> <<"s", Newline, Newline>>,
     bare    |-> <<Newline>>,
     inner   |-> <<"s", Newline, "t">>,
     empty   |-> <<>>]

SecretExists(namespace, name) ==
    namespace = SecretNamespace /\ name = SecretName

SecretGetErr(namespace, name) ==
    [kind |-> "secret-get", namespace |-> namespace, name |-> name]
KeyNotFoundErr(key, namespace, name) ==
    [kind |-> "key-not-found", key |-> key, namespace |-> namespace,
     name |-> name]

\* A secret that returns the value as stored.
secretUntrimmed(ref, namespace, getOk) ==
    IF ref.Name = ""
    THEN [value |-> <<>>, err |-> NoErr, lookups |-> <<>>]
    ELSE LET looked == <<[namespace |-> namespace, name |-> ref.Name]>>
         IN  IF ~getOk \/ ~SecretExists(namespace, ref.Name)
             THEN [value |-> <<>>, err |-> SecretGetErr(namespace, ref.Name),
                   lookups |-> looked]
             ELSE IF ref.Key \notin DOMAIN SecretData
             THEN [value |-> <<>>,
                   err |-> KeyNotFoundErr(ref.Key, namespace, ref.Name),
                   lookups |-> looked]
             ELSE [value |-> SecretData[ref.Key], err |-> NoErr,
                   lookups |-> looked]

\* ddDNSProviderSolver.secret: the value, the error and the Get calls made.
\* getOk is whether the Get of an existing secret succeeds.
secret(ref, namespace, getOk) ==
    IF ref.Name = ""
    THEN [value |-> <<>>, err |-> NoErr, lookups |-> <<>>]
    ELSE LET looked == <<[namespace |-> namespace, name |-> ref.Name]>>
         IN  IF ~getOk \/ ~SecretExists(namespace, ref.Name)
             THEN [value |-> <<>>, err |-> SecretGetErr(namespace, ref.Name),
                   lookups |-> looked]
             ELSE IF ref.Key \notin DOMAIN SecretData
             THEN [value |-> <<>>,
                   err |-> KeyNotFoundErr(ref.Key, namespace, ref.Name),
                   lookups |-> looked]
             ELSE [value |-> TrimSuffix(SecretData[ref.Key], <<Newline>>),
                   err |-> NoErr, lookups |-> looked]

ClientConfigErr == [kind |-> "client-config"]
NoClient == [endpoint |-> "", AppKey |-> "", AppSecret |-> <<>>]

\* NewClient: the Client with the key and the secret it was given, unless
\* client.loadConfig(endpoint) fails; configOk is whether it succeeds.
NewClient(endpoint, appKey, appSecret, configOk) ==
    IF configOk
    THEN [client |-> [endpoint |-> endpoint, AppKey |-> appKey,
                      AppSecret |-> appSecret],
          err |-> NoErr]
    ELSE [client |-> NoClient, err |-> ClientConfigErr]

\* ddDNSProviderSolver.ddClient: the Client, the error, the Get calls made.
ddClient(ch, getOk, configOk) ==
    LET loaded == loadConfig(ch.Config)
        cfg    == loaded.cfg
        verr   == validate(cfg, ch.AllowAmbientCredentials)
        sec    == secret(cfg.ApplicationSecretRef, ch.ResourceNamespace, getOk)
        made   == NewClient(cfg.Endpoint, cfg.ApplicationKey, sec.value,
                            configOk)
    IN  IF loaded.err # NoErr
        THEN [client |-> NoClient, err |-> loaded.err, lookups |-> <<>>]
        ELSE IF verr # NoErr
        THEN [client |-> NoClient, err |-> verr, lookups |-> <<>>]
        ELSE IF sec.err # NoErr
        THEN [client |-> NoClient, err |-> sec.err, lookups |-> sec.lookups]
        ELSE [client |-> made.client, err |-> made.err,
              lookups |-> sec.lookups]

(***************************************************************************)
(* Record operations (main.go)                                             *)
(***************************************************************************)
\* fmt.Errorf("DonDominio API call failed: <verb> <url> - %v", err)
CallFailed(verb, url, err) ==
    [kind |-> "call-failed", verb |-> verb, url |-> url, cause |-> err]
\* fmt.Errorf("DonDominio service not deployed for domain %s", domain)
NotDeployed(domain) == [kind |-> "not-deployed", domain |-> domain]

\* ddServiceInfo{} and ddServiceList{}, as far as the code reads them.
ZeroServiceInfo == [Status |-> ""]
ZeroServiceList == [Dns |-> <<>>]

GetInfoURL == "/service/getinfo"
ListURL == "/service/dnslist"
CreateURL == "/service/dnscreate"
DeleteURL == "/service/dnsdelete"

validateServiceParams(domain) == [ServiceName |-> domain, InfoType |-> "status"]

\* validateService, given what ddClient.Post returned.
validateService(posted, domain) ==
    IF posted.err # NoErr THEN CallFailed("POST", GetInfoURL, posted.err)
    ELSE IF posted.out.value.Status # "active" THEN NotDeployed(domain)
    ELSE NoErr

\* A findRecords that sends no filter value.
findRecordsParamsNoFilter(domain, target) ==
    [ServiceName |-> domain, FilterValue |-> ""]

findRecordsParams(domain, target) ==
    [ServiceName |-> domain, FilterValue |-> target]

\* findRecords, given what ddClient.Post returned: (record, err).
findRecords(posted) ==
    IF posted.err # NoErr
    THEN [record |-> ZeroServiceList,
          err |-> CallFailed("POST", ListURL, posted.err)]
    ELSE [record |-> posted.out.value, err |-> NoErr]

deleteRecordParams(domain, entityId) ==
    [ServiceName |-> domain, EntityId |-> entityId]

deleteRecord(posted) ==
    IF posted.err # NoErr THEN CallFailed("DELETE", DeleteURL, posted.err)
    ELSE NoErr

createRecordParams(domain, fieldType, subDomain, target) ==
    [FieldType |-> fieldType, ServiceName |-> domain,
     Name |-> subDomain \o <<Dot>> \o domain, Value |-> target]

\* A createRecord that returns nil whatever Post returned.
createRecordSwallowsError(posted) == NoErr

createRecord(posted) ==
    IF posted.err # NoErr THEN CallFailed("POST", CreateURL, posted.err)
    ELSE NoErr

\* An addTXTRecord that goes on to createRecord whatever validateService said.
addTXTRecordAlwaysCreates(verr) == TRUE

\* addTXTRecord: whether createRecord is called after validateService.
addTXTRecordCreates(verr) == verr = NoErr

\* An addTXTRecord that calls validateService again when it has failed.
addTXTRecordRetries(verr) == IF verr = NoErr THEN "create" ELSE "validate"

\* addTXTRecord: what follows validateService, createRecord or the return.
addTXTRecordNext(verr) == IF addTXTRecordCreates(verr) THEN "create" ELSE "done"

\* A removeTXTRecord that deletes the last entry of the list.
removeTXTRecordLastEntry(dns) == dns[Len(dns)].EntityID

\* removeTXTRecord: the entity ID handed to deleteRecord, for a list that
\* is not empty.
removeTXTRecordEntry(dns) == dns[1].EntityID

\* A removeTXTRecord that leaves a record alone when it is the only one.
removeTXTRecordDeletesSeveral(dns) == Len(dns) > 1

\* removeTXTRecord: whether deleteRecord is called.
removeTXTRecordDeletes(dns) == Len(dns) > 0

\* A CleanUp that takes the whole name for the domain.
cleanUpDomainWholeName(fqdn) == UnFqdn(fqdn)

\* CleanUp: domain := getDomain(ch.ResolvedFQDN)
cleanUpDomain(fqdn) == getDomain(fqdn)

(***************************************************************************)
(* The provider: the records of its zones and what its endpoints answer    *)
(***************************************************************************)
\* What /service/dnslist finds: the records of the service whose value is
\* the filter value; every record of the service when no filter is sent.
Matching(records, params) ==
    {r \in records : /\ r.ServiceName = params.ServiceName
                      /\ params.FilterValue \in {"", r.Value}}

\* The record as /service/dnslist shows it.
Dns(r) ==
    [EntityID |-> r.EntityID, Name |-> r.Name, Type |-> r.Type,
     Value |-> r.Value]

\* The orders in which a set of records may be listed.
Orderings(S) ==
    {[i \in 1..Cardinality(S) |-> Dns(order[i])] :
        order \in {o \in [1..Cardinality(S) -> S] :
                    \A i, j \in 1..Cardinality(S) : o[i] = o[j] => i = j}}

\* The record /service/dnscreate makes of its parameters. Its history says
\* for which name and proof value it was made (of) and whether the Present
\* that made it returned nil (presented).
NewRecord(id, params, ch, presented) ==
    [EntityID |-> id, ServiceName |-> params.ServiceName, Name |-> params.Name,
     Type |-> params.FieldType, Value |-> params.Value,
     of |-> <<ch.ResolvedFQDN, ch.Key>>, presented |-> presented]

SameRecord(r, params) ==
    /\ r.ServiceName = params.ServiceName
    /\ r.Name = params.Name
    /\ r.Type = params.FieldType
    /\ r.Value = params.Value

\* The answers of an endpoint whose result is data: the result and an API
\* error and, when the network is taken to be faulty, a 2xx whose body is
\* garbled and one whose body cannot be read.
Answers(data, faulty) ==
    {[StatusCode |-> StatusOK, readOk |-> TRUE, body |-> JsonBody("", data),
      queryID |-> "q-17"],
     [StatusCode |-> StatusMultipleChoices + 200, readOk |-> TRUE,
      body |-> JsonBody("request refused", "none"), queryID |-> "q-17"]}
    \cup
    {r \in {[StatusCode |-> StatusOK, readOk |-> TRUE,
             body |-> TextBody("<html>"), queryID |-> "q-17"],
            [StatusCode |-> StatusOK, readOk |-> FALSE, body |-> EmptyBody,
             queryID |-> "q-17"]} : faulty}

\* What the provider says of a delete whose entity it does not hold.
NotFoundAnswer ==
    [StatusCode |-> StatusMultipleChoices + 104, readOk |-> TRUE,
     body |-> JsonBody("record not found", "none"), queryID |-> "q-17"]

\* The answers of /service/dnsdelete: for an entity the provider does not
\* hold (any more) it may report success all the same, or refuse.
DeleteAnswers(held, faulty) ==
    Answers("none", faulty) \cup {r \in {NotFoundAnswer} : ~held}

\* Whether a request reaches the provider: always, or not when the network
\* is taken to be faulty.
Sents(faulty) == IF faulty THEN BOOLEAN ELSE {TRUE}

\* The provider carries a request out when it arrives and the answer is 2xx.
Performed(sent, response) == sent /\ ~IsAPIErrorStatus(response.StatusCode)

ServiceStatuses == {"active", "expired"}

(***************************************************************************)
(* Invocations of Present and CleanUp                                      *)
(***************************************************************************)
\* The host's goroutines, each running one Present or CleanUp at a time.
Procs == {"h1", "h2"}

NoChallenge ==
    [ResolvedFQDN |-> <<>>, Key |-> "", ResourceNamespace |-> "",
     Config |-> NilJSON, AllowAmbientCredentials |-> FALSE]

\* What ddClient.Post returns before any call: no error, resType untouched.
NotPosted == [err |-> NoErr, out |-> NilOut]

\* An invocation: where it is (pc), its challenge, the Client it built (dd),
\* the locals of Present, CleanUp, addTXTRecord and removeTXTRecord (domain,
\* subDomain, dns), and the error it returns. Its history: the secret Get
\* calls (lookups) and the remote calls (calls) it has made; whether
\* validateService has returned (validated), what its Post returned (info)
\* and what it returned (vErr); whether findRecords has returned a list
\* (listed); whether the provider held the same record when createRecord was
\* called (existed); the records presented for its challenge before it began
\* (known); how the last CleanUp of its proof value had ended when it began
\* (after); whether the cluster could serve the secret (getOk) and whether
\* client.loadConfig could succeed (configOk) when it built its Client.
IdleInv ==
    [pc |-> "idle", op |-> "none", ch |-> NoChallenge, dd |-> NoClient,
     domain |-> <<>>, subDomain |-> <<>>, err |-> NoErr, lookups |-> <<>>,
     calls |-> <<>>, validated |-> FALSE, info |-> NotPosted, vErr |-> NoErr,
     listed |-> FALSE, dns |-> <<>>, existed |-> FALSE, known |-> {},
     after |-> "no", getOk |-> TRUE, configOk |-> TRUE]

\* How the last CleanUp that returned nil for the domain and the proof value
\* found the provider, when no such record has been created since: with no
\* or one record listed ("sole"), with several ("more"); "no" otherwise.
CleanedAs(log, domain, key) ==
    IF \E c \in log : c.domain = domain /\ c.key = key
    THEN (CHOOSE c \in log : c.domain = domain /\ c.key = key).as
    ELSE "no"

Forget(log, domain, key) ==
    {c \in log : ~(c.domain = domain /\ c.key = key)}

Remember(log, domain, key, dns) ==
    Forget(log, domain, key)
        \cup {[domain |-> domain, key |-> key,
                as |-> IF Len(dns) <= 1 THEN "sole" ELSE "more"]}

\* The solver and the provider in the specifications that do not run them.
SolverOff ==
    /\ client = "nil"
    /\ inv = [p \in Procs |-> IdleInv]
    /\ zone = {}
    /\ nextId = 1
    /\ cleaned = {}

(***************************************************************************)
(* UnmarshalResponse on its own: every response, with and without resType  *)
(***************************************************************************)
Statuses == {StatusOK - 1, StatusOK, StatusOK + 4, StatusMultipleChoices - 1,
             StatusMultipleChoices, StatusMultipleChoices + 104,
             StatusMultipleChoices + 200}

QueryIDs == {"", "q-17"}

ErrorBodies ==
    {EmptyBody, TextBody("Bad Gateway")}
        \cup {JsonBody(m, d) : m \in {"", "invalid credentials"},
                               d \in {"data1", "data2"}}

Responses ==
    [StatusCode : Statuses, readOk : BOOLEAN, body : ErrorBodies,
     queryID : QueryIDs]

ResTypes == {NilOut, Out("zero"), Out("data1")}

UnmarshalIdle ==
    [pc |-> "off", response |-> "none", resType |-> NilOut, err |-> NoErr,
     out |-> NilOut]

InitUnmarshal ==
    /\ ur \in {[pc |-> "call", response |-> r, resType |-> t, err |-> NoErr,
                out |-> t] : r \in Responses, t \in ResTypes}
    /\ dp = ParserIdle
    /\ SolverOff
    /\ rq = RequestIdle
    /\ td = TimeDeltaIdle

Unmarshal ==
    /\ ur.pc = "call"
    /\ LET got == UnmarshalResponse(ur.response, ur.resType)
       IN  ur' = [ur EXCEPT !.pc = "returned", !.err = got.err, !.out = got.out]
    /\ UNCHANGED <<dp, rq, td, solverVars>>

NextUnmarshal == Unmarshal

SpecUnmarshal == InitUnmarshal /\ [][NextUnmarshal]_vars

(***************************************************************************)
(* NewRequest on its own: every client, method, path and request body      *)
(***************************************************************************)
AppKeys == {<<"k">>, <<"k", "&", "x">>, <<>>}
AppSecrets == {<<"s">>, <<"s", "=", "&">>, <<"s", " ", "+", "%">>}

RequestClients ==
    [AppKey : AppKeys, AppSecret : AppSecrets,
     endpoint : ValidEndpoints \cup {"://"}, UserAgent : {"", "certs"}]

FieldValues == {<<"v">>, <<"a", "&", "b", "=">>}

\* nil, a value that is no struct, and the structs over the keys of the
\* model, the ones that carry apiuser or apipasswd themselves included.
ReqBodies ==
    {NilBody, NotAStruct}
        \cup UNION {{StructBody(f) : f \in [tags -> FieldValues]} :
                        tags \in SUBSET {"serviceName", "apiuser", "apipasswd"}}

InitRequest ==
    /\ rq \in {[pc |-> "call", c |-> c, method |-> m, path |-> path,
                reqBody |-> b, req |-> NoRequest, err |-> NoErr] :
                    c \in RequestClients,
                    m \in ValidMethods \cup {"BAD METHOD"},
                    path \in {"/auth/time", GetInfoURL},
                    b \in ReqBodies}
    /\ dp = ParserIdle
    /\ ur = UnmarshalIdle
    /\ td = TimeDeltaIdle
    /\ SolverOff

MakeRequest ==
    /\ rq.pc = "call"
    /\ LET made == NewRequest(rq.c, rq.method, rq.path, rq.reqBody)
       IN  rq' = [rq EXCEPT !.pc = "returned", !.req = made.req,
                            !.err = made.err]
    /\ UNCHANGED <<dp, ur, td, solverVars>>

NextRequest == MakeRequest

SpecRequest == InitRequest /\ [][NextRequest]_vars

(***************************************************************************)
(* Inputs of the domain parser                                             *)
(***************************************************************************)
Labels == {<<"a">>, <<"b">>, <<"a", "b">>}

RECURSIVE JoinLabels(_)
JoinLabels(ls) ==
    IF Len(ls) = 0 THEN <<>>
    ELSE IF Len(ls) = 1 THEN ls[1]
    ELSE ls[1] \o <<Dot>> \o JoinLabels(Tail(ls))

LabelSeqs == UNION {[1..n -> Labels] : n \in 1..MaxLabels}

\* The examples of the specification, spelled out.
ExampleCom == <<"e", "x", "a", "m", "p", "l", "e", ".", "c", "o", "m">>
ExampleComDot == ExampleCom \o <<Dot>>
FooBarExampleComDot ==
    <<"f", "o", "o", ".", "b", "a", "r", ".">> \o ExampleCom \o <<Dot>>
AcmeExampleComDot ==
    <<"_", "a", "c", "m", "e", ".">> \o ExampleCom \o <<Dot>>

\* Names that are no well-formed FQDN, which the parser accepts all the same.
OddNames == {<<>>, <<Dot>>, <<Dot, Dot>>, <<"a", Dot, Dot>>}

FqdnInputs ==
    {JoinLabels(ls) : ls \in LabelSeqs}
        \cup {JoinLabels(ls) \o <<Dot>> : ls \in LabelSeqs}
        \cup {ExampleCom, ExampleComDot, FooBarExampleComDot, AcmeExampleComDot}
        \cup OddNames

(***************************************************************************)
(* The domain parser as Present uses it (main.go, lines 215-216)           *)
(***************************************************************************)
InitParser ==
    /\ dp \in {[pc |-> "start", fqdn |-> f, domain |-> <<>>, subDomain |-> <<>>] :
                f \in FqdnInputs}
    /\ ur = UnmarshalIdle
    /\ SolverOff
    /\ rq = RequestIdle
    /\ td = TimeDeltaIdle

ParseDomain ==
    /\ dp.pc = "start"
    /\ dp' = [dp EXCEPT !.pc = "domain", !.domain = getDomain(dp.fqdn)]
    /\ UNCHANGED <<ur, rq, td, solverVars>>

ParseSubDomain ==
    /\ dp.pc = "domain"
    /\ dp' = [dp EXCEPT !.pc = "done",
                        !.subDomain = getSubDomain(dp.domain, dp.fqdn)]
    /\ UNCHANGED <<ur, rq, td, solverVars>>

NextParser == ParseDomain \/ ParseSubDomain

SpecParser == InitParser /\ [][NextParser]_vars

(***************************************************************************)
(* The solver (main.go) against the provider                               *)
(***************************************************************************)
XAB == <<"x", ".", "a", ".", "b", ".">>
SolverFqdns == {XAB}
Keys == {"k1", "k2"}

GoodConfig ==
    ConfigJSON([Endpoint |-> "dd-eu", ApplicationKey |-> "app-key",
                ApplicationSecretRef |->
                    [Name |-> SecretName, Key |-> "newline"]])

\* The challenges of the host: one name, two proof values.
SolverChallenges ==
    [ResolvedFQDN : SolverFqdns, Key : Keys,
     ResourceNamespace : {SecretNamespace}, Config : {GoodConfig},
     AllowAmbientCredentials : {FALSE}]

Init ==
    /\ dp = ParserIdle
    /\ ur = UnmarshalIdle
    /\ SolverOff
    /\ rq = RequestIdle
    /\ td = TimeDeltaIdle

\* Initialize, were it to store what NewForConfig returned before looking at
\* its error.
InitializeStoresOnFailure ==
    /\ client = "nil"
    /\ \E ok \in BOOLEAN : client' = IF ok THEN "clientset" ELSE "broken"
    /\ UNCHANGED <<dp, ur, rq, td, inv, zone, nextId, cleaned>>

\* Initialize: kubernetes.NewForConfig fails, or its client is stored.
Initialize ==
    /\ client = "nil"
    /\ \E ok \in BOOLEAN : client' = IF ok THEN "clientset" ELSE client
    /\ UNCHANGED <<dp, ur, rq, td, inv, zone, nextId, cleaned>>

\* No response: Do returned an error.
NoResponse ==
    [StatusCode |-> 0, readOk |-> FALSE, body |-> EmptyBody, queryID |-> ""]

\* One call of ddClient.Post, with what came back for it.
Call(url, params, sent, response) ==
    [url |-> url, params |-> params, sent |-> sent,
     response |-> IF sent THEN response ELSE NoResponse]

\* The records at the provider that a Present of the challenge which
\* returned nil has created.
PresentedFor(ch) ==
    {r.EntityID : r \in {q \in zone : /\ q.presented
                                      /\ q.of = <<ch.ResolvedFQDN, ch.Key>>}}

\* Present up to its call of addTXTRecord: ddClient, getDomain, getSubDomain.
PresentOf(p, challenges, faulty) ==
    /\ client # "nil"
    /\ inv[p].pc = "idle"
    /\ \E ch \in challenges, getOk \in Sents(faulty), configOk \in Sents(faulty) :
        LET made   == ddClient(ch, getOk, configOk)
            domain == getDomain(ch.ResolvedFQDN)
        IN  inv' = [inv EXCEPT ![p] =
                IF made.err # NoErr
                THEN [IdleInv EXCEPT !.pc = "done", !.op = "Present",
                                     !.ch = ch, !.err = made.err,
                                     !.lookups = made.lookups,
                                     !.getOk = getOk, !.configOk = configOk]
                ELSE [IdleInv EXCEPT !.pc = "validate", !.op = "Present",
                                     !.ch = ch, !.dd = made.client,
                                     !.lookups = made.lookups,
                                     !.getOk = getOk, !.configOk = configOk,
                                     !.domain = domain,
                                     !.subDomain =
                                        getSubDomain(domain, ch.ResolvedFQDN)]]
    /\ UNCHANGED <<dp, ur, rq, td, client, zone, nextId, cleaned>>

\* CleanUp up to its call of removeTXTRecord: ddClient, getDomain.
CleanUpOf(p, challenges, faulty) ==
    /\ client # "nil"
    /\ inv[p].pc = "idle"
    /\ \E ch \in challenges, getOk \in Sents(faulty), configOk \in Sents(faulty) :
        LET made == ddClient(ch, getOk, configOk)
        IN  inv' = [inv EXCEPT ![p] =
                IF made.err # NoErr
                THEN [IdleInv EXCEPT !.pc = "done", !.op = "CleanUp",
                                     !.ch = ch, !.err = made.err,
                                     !.lookups = made.lookups,
                                     !.getOk = getOk, !.configOk = configOk]
                ELSE [IdleInv EXCEPT !.pc = "find", !.op = "CleanUp",
                                     !.ch = ch, !.dd = made.client,
                                     !.lookups = made.lookups,
                                     !.getOk = getOk, !.configOk = configOk,
                                     !.domain = cleanUpDomain(ch.ResolvedFQDN),
                                     !.known = PresentedFor(ch),
                                     !.after =
                                        CleanedAs(cleaned,
                                            cleanUpDomain(ch.ResolvedFQDN),
                                            ch.Key)]]
    /\ UNCHANGED <<dp, ur, rq, td, client, zone, nextId, cleaned>>

\* addTXTRecord, first half: validateService posts to /service/getinfo.
ValidateServiceOf(p, faulty) ==
    /\ inv[p].pc = "validate"
    /\ \E sent \in Sents(faulty), status \in ServiceStatuses :
        \E response \in Answers([Status |-> status], faulty) :
            LET me     == inv[p]
                params == validateServiceParams(me.domain)
                posted == CallAPI(sent, response, Out(ZeroServiceInfo))
                verr   == validateService(posted, me.domain)
            IN  inv' = [inv EXCEPT ![p] =
                    [me EXCEPT !.calls = Append(@, Call(GetInfoURL, params,
                                                          sent, response)),
                               !.validated = TRUE,
                               !.info = posted,
                               !.vErr = verr,
                               !.pc = addTXTRecordNext(verr),
                               !.err = IF addTXTRecordCreates(verr)
                                       THEN NoErr ELSE verr]]
    /\ UNCHANGED <<dp, ur, rq, td, client, zone, nextId, cleaned>>

\* addTXTRecord, second half: createRecord posts to /service/dnscreate. The
\* provider, when it carries the request out, adds a record with a new entity
\* ID, or keeps the record it has when that is the same record.
CreateRecordOf(p, faulty) ==
    /\ inv[p].pc = "create"
    /\ \E sent \in Sents(faulty), keepsOne \in BOOLEAN :
        \E response \in Answers(ZeroServiceList, faulty) :
            LET me      == inv[p]
                params  == createRecordParams(me.domain, "TXT", me.subDomain,
                                              me.ch.Key)
                posted  == CallAPI(sent, response, Out(ZeroServiceList))
                err     == createRecord(posted)
                has     == \E r \in zone : SameRecord(r, params)
                adds    == Performed(sent, response) /\ ~(keepsOne /\ has)
            IN  /\ adds => nextId <= MaxRecords
                /\ zone' = IF adds
                           THEN zone \cup {NewRecord(nextId, params, me.ch,
                                                     err = NoErr)}
                           ELSE zone
                /\ nextId' = IF adds THEN nextId + 1 ELSE nextId
                /\ cleaned' = IF adds
                              THEN Forget(cleaned, params.ServiceName,
                                          params.Value)
                              ELSE cleaned
                /\ inv' = [inv EXCEPT ![p] =
                        [me EXCEPT !.calls = Append(@, Call(CreateURL, params,
                                                               sent, response)),
                                   !.existed = has,
                                   !.pc = "done",
                                   !.err = err]]
    /\ UNCHANGED <<dp, ur, rq, td, client>>

\* removeTXTRecord, first half: findRecords posts to /service/dnslist, and
\* the provider lists the matching records in some order.
FindRecordsOf(p, faulty) ==
    /\ inv[p].pc = "find"
    /\ LET me     == inv[p]
           params == findRecordsParams(me.domain, me.ch.Key)
       IN  \E sent \in Sents(faulty), order \in Orderings(Matching(zone, params)) :
            \E response \in Answers([Dns |-> order], faulty) :
                LET posted == CallAPI(sent, response, Out(ZeroServiceList))
                    found  == findRecords(posted)
                    dns    == found.record.Dns
                IN  /\ inv' = [inv EXCEPT ![p] =
                        [me EXCEPT !.calls = Append(@, Call(ListURL, params,
                                                               sent, response)),
                                   !.listed = (found.err = NoErr),
                                   !.dns = dns,
                                   !.pc = IF found.err = NoErr
                                             /\ removeTXTRecordDeletes(dns)
                                          THEN "delete" ELSE "done",
                                   !.err = found.err]]
                    /\ cleaned' =
                            IF found.err = NoErr /\ ~removeTXTRecordDeletes(dns)
                            THEN Remember(cleaned, me.domain, me.ch.Key, dns)
                            ELSE cleaned
    /\ UNCHANGED <<dp, ur, rq, td, client, zone, nextId>>

\* removeTXTRecord, second half: deleteRecord posts to /service/dnsdelete.
DeleteRecordOf(p, faulty) ==
    /\ inv[p].pc = "delete"
    /\ \E sent \in Sents(faulty) :
        \E response \in DeleteAnswers(
                            \E r \in zone :
                                r.EntityID = removeTXTRecordEntry(inv[p].dns),
                            faulty) :
            LET me     == inv[p]
                params == deleteRecordParams(me.domain,
                                             removeTXTRecordEntry(me.dns))
                posted == CallAPI(sent, response, NilOut)
            IN  /\ zone' = IF Performed(sent, response)
                           THEN {r \in zone :
                                    ~(r.ServiceName = params.ServiceName
                                        /\ r.EntityID = params.EntityId)}
                           ELSE zone
                /\ inv' = [inv EXCEPT ![p] =
                        [me EXCEPT !.calls = Append(@, Call(DeleteURL, params,
                                                               sent, response)),
                                   !.pc = "done",
                                   !.err = deleteRecord(posted)]]
                /\ cleaned' =
                        IF deleteRecord(posted) = NoErr
                        THEN Remember(cleaned, me.domain, me.ch.Key, me.dns)
                        ELSE cleaned
    /\ UNCHANGED <<dp, ur, rq, td, client, nextId>>

\* The host takes the result; the invocation is over.
Return(p) ==
    /\ inv[p].pc = "done"
    /\ inv' = [inv EXCEPT ![p] = IdleInv]
    /\ UNCHANGED <<dp, ur, rq, td, client, zone, nextId, cleaned>>

\* The host runs Present and CleanUp concurrently, for challenges that share
\* a name; the provider answers every request, with a result or an API error.
Present(p) == PresentOf(p, SolverChallenges, FALSE)
CleanUp(p) == CleanUpOf(p, SolverChallenges, FALSE)
ValidateService(p) == ValidateServiceOf(p, FALSE)
CreateRecord(p) == CreateRecordOf(p, FALSE)
FindRecords(p) == FindRecordsOf(p, FALSE)
DeleteRecord(p) == DeleteRecordOf(p, FALSE)

Next ==
    \/ Initialize
    \/ \E p \in Procs : Present(p)
    \/ \E p \in Procs : CleanUp(p)
    \/ \E p \in Procs : ValidateService(p)
    \/ \E p \in Procs : CreateRecord(p)
    \/ \E p \in Procs : FindRecords(p)
    \/ \E p \in Procs : DeleteRecord(p)
    \/ \E p \in Procs : Return(p)

Spec == Init /\ [][Next]_vars

(***************************************************************************)
(* Present from the resolved FQDN to the parameters of the create call      *)
(* (main.go, lines 215-218 and 370-375)                                    *)
(***************************************************************************)
\* Present hands domain, subDomain and ch.Key to addTXTRecord, and
\* createRecord builds the parameters of /service/dnscreate from them.
BuildCreateParams ==
    /\ dp.pc = "done"
    /\ \E key \in Keys :
        dp' = [pc |-> "named", fqdn |-> dp.fqdn, domain |-> dp.domain,
               subDomain |-> dp.subDomain, key |-> key,
               params |-> createRecordParams(dp.domain, "TXT", dp.subDomain,
                                             key)]
    /\ UNCHANGED <<ur, rq, td, solverVars>>

NextCreateParams == ParseDomain \/ ParseSubDomain \/ BuildCreateParams

SpecCreateParams == InitParser /\ [][NextCreateParams]_vars

(***************************************************************************)
(* One invocation at a time, with every configuration and every failure    *)
(***************************************************************************)
ConfigOf(endpoint, appKey, refName, refKey) ==
    ConfigJSON([Endpoint |-> endpoint, ApplicationKey |-> appKey,
                ApplicationSecretRef |-> [Name |-> refName, Key |-> refKey]])

\* No config, a config that does not decode, every combination of empty and
\* set fields, every key of the secret, a key and a secret that do not exist.
CredConfigs ==
    {NilJSON, MalformedJSON}
        \cup {ConfigOf(e, k, n, "newline") :
                e \in {"", "dd-eu"}, k \in {"", "app-key"},
                n \in {"", SecretName}}
        \cup {ConfigOf("dd-eu", "app-key", SecretName, key) :
                key \in (DOMAIN SecretData) \cup {"no-such-key"}}
        \cup {ConfigOf("dd-eu", "app-key", "no-such-secret", "plain")}

CredChallenges ==
    [ResolvedFQDN : {XAB}, Key : {"k1"},
     ResourceNamespace : {SecretNamespace, "default"}, Config : CredConfigs,
     AllowAmbientCredentials : BOOLEAN]

Solo == "h1"

PresentOne == PresentOf(Solo, CredChallenges, TRUE)
CleanUpOne == CleanUpOf(Solo, CredChallenges, TRUE)
ValidateServiceOne == ValidateServiceOf(Solo, TRUE)
CreateRecordOne == CreateRecordOf(Solo, TRUE)
FindRecordsOne == FindRecordsOf(Solo, TRUE)
DeleteRecordOne == DeleteRecordOf(Solo, TRUE)
ReturnOne == Return(Solo)

NextOne ==
    \/ Initialize
    \/ PresentOne
    \/ CleanUpOne
    \/ ValidateServiceOne
    \/ CreateRecordOne
    \/ FindRecordsOne
    \/ DeleteRecordOne
    \/ ReturnOne

SpecOne == Init /\ [][NextOne]_vars

\* The same, with every remote call returning: Post blocks until the
\* provider has answered or the transport has given up (Client.Timeout), so
\* the step that follows a call is taken.
SpecOneLive ==
    /\ SpecOne
    /\ WF_vars(ValidateServiceOne)
    /\ WF_vars(CreateRecordOne)
    /\ WF_vars(FindRecordsOne)
    /\ WF_vars(DeleteRecordOne)

(***************************************************************************)
(* Claims about the domain parser                                          *)
(***************************************************************************)
\* The name without one trailing dot, stated without UnFqdn.
StripTrailingDot(s) ==
    IF s # <<>> /\ s[Len(s)] = Dot THEN [k \in 1..(Len(s) - 1) |-> s[k]] ELSE s

DotPositions(s) == {k \in 1..Len(s) : s[k] = Dot}

MaxOf(S) == CHOOSE m \in S : \A other \in S : other <= m

\* The last two dot-separated labels of a string holding at least two dots.
LastTwoLabels(s) ==
    LET last == MaxOf(DotPositions(s))
        prev == MaxOf(DotPositions(s) \ {last})
    IN  [k \in 1..(Len(s) - prev) |-> s[prev + k]]

\* C9: for every FQDN f and d = getDomain(f), when f without its trailing dot
\* differs from d, getSubDomain(d, f) + "." + d is f without its trailing dot.
C9_RoundTrip ==
    (dp.pc = "done" /\ StripTrailingDot(dp.fqdn) # dp.domain)
        => dp.subDomain \o <<Dot>> \o dp.domain = StripTrailingDot(dp.fqdn)

\* C10: getDomain strips one trailing dot, then returns the last two
\* dot-separated labels when the rest holds at least two dots and the whole
\* rest otherwise; the three examples of the specification give example.com.
C10_GetDomainLastTwoLabels ==
    dp.pc # "start" =>
        LET s == StripTrailingDot(dp.fqdn)
        IN  /\ Cardinality(DotPositions(s)) >= 2
                => /\ dp.domain = LastTwoLabels(s)
                   /\ Cardinality(DotPositions(dp.domain)) = 1
            /\ Cardinality(DotPositions(s)) < 2 => dp.domain = s
            /\ dp.fqdn \in {FooBarExampleComDot, ExampleComDot, ExampleCom}
                => dp.domain = ExampleCom

\* C10 witness: the four-label example, with its trailing dot, has been parsed.
C10_Witness ==
    /\ dp.pc # "start"
    /\ dp.fqdn = FooBarExampleComDot
    /\ dp.domain = ExampleCom

(***************************************************************************)
(* Claims about UnmarshalResponse                                          *)
(***************************************************************************)
\* What the claim says of a response whose status is outside [200,300): the
\* call returns an API Error with the response's status code, the payload's
\* message (the raw body text when the payload does not decode) and the
\* query-identifier header, and resType is as before the call.
APIErrorReturned ==
    /\ ur.err.kind = "api"
    /\ ur.err.Code = ur.response.StatusCode
    /\ ur.err.QueryID = ur.response.queryID
    /\ ur.err.Message = IF ur.response.body.form = "json"
                        THEN ur.response.body.message
                        ELSE IF ur.response.body.form = "text"
                        THEN ur.response.body.text
                        ELSE ""
    /\ ur.out = ur.resType

OutsideSuccessRange(code) == ~(code >= 200 /\ code < 300)

\* C6 as stated: for every response whose status code is outside [200,300),
\* UnmarshalResponse returns an API Error carrying the status code, the
\* message and the query identifier, and leaves the output value unchanged.
C6_EveryNon2xxIsAPIError ==
    (ur.pc = "returned" /\ OutsideSuccessRange(ur.response.StatusCode))
        => APIErrorReturned

\* C6 as amended: the same, for every response whose body was read without
\* error; when reading the body fails the read error is returned instead,
\* whatever the status code, and the output value is unchanged too.
C6_Non2xxReadableIsAPIError ==
    /\ (ur.pc = "returned" /\ OutsideSuccessRange(ur.response.StatusCode)
            /\ ur.response.readOk)
        => APIErrorReturned
    /\ (ur.pc = "returned" /\ ~ur.response.readOk)
        => (ur.err = ReadErr /\ ur.out = ur.resType)
    /\ (ur.pc = "returned" /\ ur.err.kind = "api")
        => OutsideSuccessRange(ur.response.StatusCode)

\* C6 witness: a 404 with an undecodable body and a query identifier has been
\* turned into an API Error while the caller passed an output value.
C6_Witness ==
    /\ ur.pc = "returned"
    /\ ur.response.StatusCode = 404
    /\ ur.response.readOk
    /\ ur.response.body = TextBody("Bad Gateway")
    /\ ur.response.queryID = "q-17"
    /\ ~ur.resType.isNil
    /\ ur.err = NewAPIError(404, "Bad Gateway", "q-17")

(***************************************************************************)
(* Claims about one invocation of Present or CleanUp                       *)
(***************************************************************************)
\* The positions, in the remote calls of an invocation, of the calls to url.
CallsTo(me, url) == {i \in 1..Len(me.calls) : me.calls[i].url = url}

\* The service-info call failed or reported a status other than "active".
ServiceInfoBad(me) ==
    me.info.err # NoErr \/ me.info.out.value.Status # "active"

\* C1: a create-record call is issued only after validateService has
\* returned success, as the second call, after the service-info call; when
\* the service-info call fails or reports a status other than "active", no
\* create call is issued and the invocation returns the error that
\* validateService produced.
C1_CreateOnlyAfterValidation ==
    LET me == inv[Solo]
    IN  /\ CallsTo(me, CreateURL) # {}
            => /\ me.validated
               /\ ~ServiceInfoBad(me)
               /\ me.vErr = NoErr
               /\ CallsTo(me, GetInfoURL) = {1}
               /\ CallsTo(me, CreateURL) = {2}
        /\ (me.validated /\ ServiceInfoBad(me))
            => /\ CallsTo(me, CreateURL) = {}
               /\ me.pc = "done"
               /\ me.vErr # NoErr
               /\ me.err = me.vErr

\* C1 witness: a Present whose service-info call reported "expired" has
\* returned the not-deployed error after that one call.
C1_Witness ==
    LET me == inv[Solo]
    IN  /\ me.op = "Present"
        /\ me.pc = "done"
        /\ me.validated
        /\ me.info.err = NoErr
        /\ me.info.out.value.Status = "expired"
        /\ me.err = NotDeployed(me.domain)
        /\ Len(me.calls) = 1

\* C2: for every list that findRecords returns: with no entry, CleanUp
\* returns nil and no delete call is issued; with one or more entries,
\* exactly one delete call is issued, for the entity ID of the first entry,
\* and every further entry is still at the provider.
C2_DeleteFirstEntryOnly ==
    LET me   == inv[Solo]
        dels == CallsTo(me, DeleteURL)
    IN  me.listed =>
            /\ Len(me.dns) = 0
                => (me.pc = "done" /\ me.err = NoErr /\ dels = {})
            /\ Len(me.dns) >= 1
                => /\ me.pc \in {"delete", "done"}
                   /\ me.pc = "delete" => dels = {}
                   /\ me.pc = "done"
                        => /\ Cardinality(dels) = 1
                           /\ \A i \in dels :
                                me.calls[i].params =
                                    [ServiceName |-> me.domain,
                                     EntityId |-> me.dns[1].EntityID]
                   /\ \A k \in 2..Len(me.dns) :
                        \E r \in zone : r.EntityID = me.dns[k].EntityID

\* C2 witness: a CleanUp that was given two entries has returned nil after
\* one delete call; the first entry is gone, the second is still there.
C2_Witness ==
    LET me == inv[Solo]
    IN  /\ me.pc = "done"
        /\ me.listed
        /\ Len(me.dns) = 2
        /\ me.err = NoErr
        /\ Cardinality(CallsTo(me, DeleteURL)) = 1
        /\ ~\E r \in zone : r.EntityID = me.dns[1].EntityID
        /\ \E r \in zone : r.EntityID = me.dns[2].EntityID

\* The decoded provider config of a challenge whose config decodes.
DecodedConfig(ch) == IF ch.Config.form = "nil" THEN EmptyConfig ELSE ch.Config.cfg

SomeFieldMissing(cfg) ==
    \/ cfg.Endpoint = ""
    \/ cfg.ApplicationKey = ""
    \/ cfg.ApplicationSecretRef.Name = ""

\* C7: with ambient credentials disallowed, an invocation whose decoded
\* config has an empty endpoint, application key or secret reference name
\* returns a missing-field error, having made no secret lookup and no remote
\* call; with ambient credentials allowed no invocation returns that error.
C7_MissingFieldWhenNotAmbient ==
    LET me == inv[Solo]
    IN  (me.pc # "idle" /\ me.ch.Config.form # "malformed") =>
            /\ (~me.ch.AllowAmbientCredentials
                    /\ SomeFieldMissing(DecodedConfig(me.ch)))
                => /\ me.pc = "done"
                   /\ me.err.kind = "missing-field"
                   /\ me.lookups = <<>>
                   /\ me.calls = <<>>
            /\ me.ch.AllowAmbientCredentials => me.err.kind # "missing-field"

\* C7 witness: with ambient credentials disallowed, a config with an endpoint
\* and an application key and no secret reference name has been refused.
C7_Witness ==
    LET me == inv[Solo]
    IN  /\ me.pc = "done"
        /\ ~me.ch.AllowAmbientCredentials
        /\ me.ch.Config = ConfigOf("dd-eu", "app-key", "", "newline")
        /\ me.err = MissingField("application secret")
        /\ me.lookups = <<>>
        /\ me.calls = <<>>

\* The value without one trailing newline, stated without TrimSuffix.
TrimOneNewline(v) ==
    IF v # <<>> /\ v[Len(v)] = Newline
    THEN [k \in 1..(Len(v) - 1) |-> v[k]]
    ELSE v

\* C8: once the config is decoded and valid: with a secret reference name,
\* the one lookup made is in the challenge's resource namespace, an absent
\* secret or key makes the invocation fail with no remote call, and otherwise
\* the application secret is the key's value without exactly one trailing
\* newline; with no reference name no lookup is made and the application
\* secret is empty.
C8_CredentialResolution ==
    LET me  == inv[Solo]
        cfg == DecodedConfig(me.ch)
        ref == cfg.ApplicationSecretRef
        ns  == me.ch.ResourceNamespace
    IN  (/\ me.pc # "idle"
         /\ me.ch.Config.form # "malformed"
         /\ (me.ch.AllowAmbientCredentials \/ ~SomeFieldMissing(cfg))) =>
            /\ ref.Name # "" =>
                /\ me.lookups = <<[namespace |-> ns, name |-> ref.Name]>>
                /\ (~SecretExists(ns, ref.Name) \/ ref.Key \notin DOMAIN SecretData)
                    => /\ me.pc = "done"
                       /\ me.err.kind \in {"secret-get", "key-not-found"}
                       /\ me.calls = <<>>
                /\ (SecretExists(ns, ref.Name) /\ ref.Key \in DOMAIN SecretData)
                    => \/ /\ me.pc = "done"
                          /\ me.err.kind \in {"secret-get", "client-config"}
                          /\ me.calls = <<>>
                       \/ /\ me.dd.AppKey = cfg.ApplicationKey
                          /\ me.dd.AppSecret = TrimOneNewline(SecretData[ref.Key])
            /\ ref.Name = "" =>
                /\ me.lookups = <<>>
                /\ me.err.kind \notin {"secret-get", "key-not-found"}
                /\ me.dd.AppSecret = <<>>

\* C8 witness: the key whose value ends in two newlines has been resolved,
\* the Client holds the value with one newline left, and a remote call has
\* been made with it.
C8_Witness ==
    LET me == inv[Solo]
    IN  /\ me.ch.Config = ConfigOf("dd-eu", "app-key", SecretName, "twice")
        /\ me.ch.ResourceNamespace = SecretNamespace
        /\ me.lookups = <<[namespace |-> SecretNamespace, name |-> SecretName]>>
        /\ me.dd.AppSecret = <<"s", Newline>>
        /\ Len(me.calls) >= 1

(***************************************************************************)
(* Claims about Present and CleanUp against the records of the provider    *)
(***************************************************************************)
InZone(id) == \E r \in zone : r.EntityID = id

\* C3: every record that leaves the provider is deleted by a CleanUp whose
\* challenge's proof value is the record's value, and every entry a CleanUp
\* is given to delete from holds its proof value; so a record whose value
\* differs from the key of a CleanUp is never deleted by it.
C3_OnlyMatchingValueDeleted ==
    /\ [](\A p \in Procs :
            inv[p].listed =>
                \A k \in 1..Len(inv[p].dns) : inv[p].dns[k].Value = inv[p].ch.Key)
    /\ [][\A r \in zone :
            r \notin zone' =>
                \E p \in Procs :
                    /\ inv[p].op = "CleanUp"
                    /\ inv[p].pc = "delete"
                    /\ inv'[p].pc = "done"
                    /\ inv[p].ch.Key = r.Value]_vars

\* C3 witness: a CleanUp has deleted the record of its proof value and
\* returned nil while a record of the same name with another proof value is
\* at the provider.
C3_Witness ==
    \E p \in Procs :
        /\ inv[p].op = "CleanUp"
        /\ inv[p].pc = "done"
        /\ inv[p].err = NoErr
        /\ Len(inv[p].dns) >= 1
        /\ ~InZone(inv[p].dns[1].EntityID)
        /\ \E r \in zone : /\ r.Name = inv[p].dns[1].Name
                           /\ r.Type = inv[p].dns[1].Type
                           /\ r.Value # inv[p].ch.Key

\* A CleanUp that has returned nil.
CleanedUp(me) == me.op = "CleanUp" /\ me.pc = "done" /\ me.err = NoErr

\* CleanUp has listed the records with the domain and the proof value that
\* Present gave every record it made for the challenge.
LooksUpAsPresented(me) ==
    /\ me.listed
    /\ me.calls[1].url = ListURL
    /\ me.calls[1].params.FilterValue = me.ch.Key
    /\ \A r \in zone :
        r.of = <<me.ch.ResolvedFQDN, me.ch.Key>>
            => /\ r.ServiceName = me.calls[1].params.ServiceName
               /\ r.Value = me.calls[1].params.FilterValue

\* C4 as stated: after a Present of the challenge has returned nil and a
\* CleanUp of the same challenge, begun later, has returned nil, the record
\* that Present created is no longer at the provider.
C4_PresentedRecordGone ==
    \A p \in Procs :
        CleanedUp(inv[p]) => \A id \in inv[p].known : ~InZone(id)

\* C4 as amended: the CleanUp has listed the records with the domain and the
\* proof value of Present, and the record that Present created is no longer
\* at the provider unless the list held it after another record of the same
\* proof value, which is the one that was deleted.
C4_PresentedRecordGoneOrNotFirst ==
    \A p \in Procs :
        CleanedUp(inv[p]) =>
            /\ LooksUpAsPresented(inv[p])
            /\ \A id \in inv[p].known :
                \/ ~InZone(id)
                \/ /\ \E k \in 2..Len(inv[p].dns) : inv[p].dns[k].EntityID = id
                   /\ inv[p].dns[1].Value = inv[p].ch.Key
                   /\ ~InZone(inv[p].dns[1].EntityID)

\* C4 witness: a CleanUp begun after a Present of its challenge had returned
\* nil has listed the record, deleted it and returned nil.
C4_Witness ==
    \E p \in Procs :
        /\ CleanedUp(inv[p])
        /\ inv[p].known # {}
        /\ Len(inv[p].dns) = 1
        /\ inv[p].dns[1].EntityID \in inv[p].known
        /\ Cardinality(CallsTo(inv[p], DeleteURL)) = 1
        /\ \A id \in inv[p].known : ~InZone(id)

\* The errors Present passes on from the calls it makes; it makes none of
\* its own for a record that exists.
PresentErrorIsPassedOn(me) ==
    \/ me.err = NoErr
    \/ me.err = me.vErr
    \/ /\ me.err.kind = "call-failed"
       /\ me.err.url = CreateURL
       /\ me.err.cause.kind \in {"api", "transport", "read", "decode"}

\* What C5 says of a CleanUp: its list holds no record, it issues no delete
\* call and it returns nil.
FindsNothing(me) ==
    /\ me.dns = <<>>
    /\ me.pc = "done"
    /\ me.err = NoErr
    /\ CallsTo(me, DeleteURL) = {}

\* C5 as stated: a Present whose record exists already looks for no record
\* and returns only what the create call returned; a CleanUp of a challenge
\* whose last CleanUp returned nil, once its list call has returned, has
\* found no record, issues no delete call and returns nil.
C5_SecondCleanUpFindsNothing ==
    LET me == inv[Solo]
    IN  /\ (me.op = "Present" /\ me.pc = "done" /\ CallsTo(me, CreateURL) # {})
            => (CallsTo(me, ListURL) = {} /\ PresentErrorIsPassedOn(me))
        /\ (me.op = "CleanUp" /\ me.after # "no" /\ me.listed)
            => FindsNothing(me)

\* C5 as amended: the same of Present; of a CleanUp of a challenge whose
\* last CleanUp returned nil after a list of at most one record, with no
\* record of the challenge created since.
C5_SecondCleanUpAfterSoleRecord ==
    LET me == inv[Solo]
    IN  /\ (me.op = "Present" /\ me.pc = "done" /\ CallsTo(me, CreateURL) # {})
            => (CallsTo(me, ListURL) = {} /\ PresentErrorIsPassedOn(me))
        /\ (me.op = "CleanUp" /\ me.after = "sole" /\ me.listed)
            => FindsNothing(me)

\* C5 witness: a CleanUp of a challenge whose last CleanUp had deleted the
\* one record has listed no record and returned nil after that one call.
C5_Witness ==
    LET me == inv[Solo]
    IN  /\ me.op = "CleanUp"
        /\ me.after = "sole"
        /\ me.listed
        /\ FindsNothing(me)
        /\ Len(me.calls) = 1
        /\ zone = {}
        /\ nextId > 1

(***************************************************************************)
(* Claims about NewRequest                                                 *)
(***************************************************************************)
\* A form-encoded body read back: url.ParseQuery, stated on its own.
UnescapeToken(t) ==
    CASE t = "+"   -> " "
      [] t = "%2B" -> "+"
      [] t = "%26" -> "&"
      [] t = "%3D" -> "="
      [] t = "%25" -> "%"
      [] OTHER     -> t

FirstOf(S) == CHOOSE m \in S : \A other \in S : m <= other

\* The key=value pairs of a body, split at the "&" separators.
RECURSIVE FormPairs(_)
FormPairs(body) ==
    IF body = <<>> THEN <<>>
    ELSE LET seps == {i \in 1..Len(body) : body[i] = "&"}
         IN  IF seps = {} THEN <<body>>
             ELSE <<SubSeq(body, 1, FirstOf(seps) - 1)>>
                    \o FormPairs(SubSeq(body, FirstOf(seps) + 1, Len(body)))

\* The values a body holds for a key, in the order of the body.
RECURSIVE ValuesIn(_, _)
ValuesIn(pairs, key) ==
    IF pairs = <<>> THEN <<>>
    ELSE LET pair == Head(pairs)
             here == IF Len(pair) >= 2 /\ pair[1] = key /\ pair[2] = "="
                     THEN <<[i \in 1..(Len(pair) - 2) |->
                                UnescapeToken(pair[i + 2])]>>
                     ELSE <<>>
         IN  here \o ValuesIn(Tail(pairs), key)

FormValues(body, key) == ValuesIn(FormPairs(body), key)

\* C11: every request NewRequest builds has a form-encoded body that holds
\* exactly one apiuser, the client's application key, and exactly one
\* apipasswd, the client's application secret, whatever the method, the path
\* and the request body; and a request is built for a nil body and for every
\* struct, whenever the method and the endpoint are well-formed.
C11_RequestCarriesCredentials ==
    rq.pc = "returned" =>
        /\ rq.err = NoErr
            => /\ FormValues(rq.req.body, "apiuser") = <<rq.c.AppKey>>
               /\ FormValues(rq.req.body, "apipasswd") = <<rq.c.AppSecret>>
               /\ rq.req.headers.ContentType =
                    "application/x-www-form-urlencoded;charset=utf-8"
        /\ (/\ rq.reqBody.kind \in {"nil", "struct"}
            /\ rq.method \in {"GET", "POST", "PUT", "DELETE"}
            /\ rq.c.endpoint = "https://simple-api.dondominio.net")
            => rq.err = NoErr

\* C11 witness: a POST whose body carries an apiuser and an apipasswd of its
\* own has been built for a client whose key and secret hold characters that
\* the encoding escapes.
C11_Witness ==
    /\ rq.pc = "returned"
    /\ rq.err = NoErr
    /\ rq.method = "POST"
    /\ rq.reqBody = StructBody([apiuser |-> <<"v">>,
                                apipasswd |-> <<"a", "&", "b", "=">>])
    /\ rq.c.AppKey = <<"k", "&", "x">>
    /\ rq.c.AppSecret = <<"s", " ", "+", "%">>
    /\ rq.req.body = <<"apipasswd", "=", "s", "+", "%2B", "%25", "&",
                       "apiuser", "=", "k", "%26", "x">>

(***************************************************************************)
(* Claims about the remote calls of one invocation                         *)
(***************************************************************************)
CallUrls(me) == [i \in 1..Len(me.calls) |-> me.calls[i].url]

IsPrefix(a, b) == Len(a) <= Len(b) /\ \A i \in 1..Len(a) : a[i] = b[i]

Running(me) == me.pc \in {"validate", "create", "find", "delete"}

\* C12: the remote calls of a Present are a prefix of getinfo, dnscreate and
\* those of a CleanUp a prefix of dnslist, dnsdelete, so no call is made
\* twice; every step of a running invocation makes exactly one call; an
\* invocation that has returned makes no further call; and every running
\* invocation returns once its calls return.
C12_NoRetries ==
    /\ [](LET me == inv[Solo]
          IN  /\ me.op = "Present"
                    => IsPrefix(CallUrls(me), <<GetInfoURL, CreateURL>>)
              /\ me.op = "CleanUp"
                    => IsPrefix(CallUrls(me), <<ListURL, DeleteURL>>)
              /\ me.op = "none" => me.calls = <<>>)
    /\ [][LET me == inv[Solo]
              to == inv'[Solo]
          IN  /\ (Running(me) /\ to # me)
                    => /\ Len(to.calls) = Len(me.calls) + 1
                       /\ SubSeq(to.calls, 1, Len(me.calls)) = me.calls
              /\ (me.pc = "done" /\ to # me) => to = IdleInv]_vars
    /\ (Running(inv[Solo]) ~> inv[Solo].pc = "done")

\* C12 witness: a Present has returned after its two calls, getinfo and
\* dnscreate in that order, the second of which failed.
C12_Witness ==
    LET me == inv[Solo]
    IN  /\ me.op = "Present"
        /\ me.pc = "done"
        /\ CallUrls(me) = <<GetInfoURL, CreateURL>>
        /\ me.err # NoErr

(***************************************************************************)
(* Claims about the failures of one invocation                             *)
(***************************************************************************)
\* The step of ddClient that fails first for a challenge, told from the
\* challenge and the cluster alone: the kind of its error, "nil" when every
\* step succeeds.
SetupFailure(me) ==
    LET cfg == DecodedConfig(me.ch)
        ref == cfg.ApplicationSecretRef
    IN  IF me.ch.Config.form = "malformed" THEN "config-decode"
        ELSE IF ~me.ch.AllowAmbientCredentials /\ SomeFieldMissing(cfg)
        THEN "missing-field"
        ELSE IF ref.Name # "" /\ (~me.getOk
                                    \/ ~SecretExists(me.ch.ResourceNamespace,
                                                     ref.Name))
        THEN "secret-get"
        ELSE IF ref.Name # "" /\ ref.Key \notin DOMAIN SecretData
        THEN "key-not-found"
        ELSE IF ~me.configOk THEN "client-config"
        ELSE "nil"

\* How a remote call failed, told from what came back for it: the kind of
\* the error Post returns, "nil" when the call succeeded. Only the delete
\* call passes no output value.
CallFailure(call) ==
    IF ~call.sent THEN "transport"
    ELSE IF ~call.response.readOk THEN "read"
    ELSE IF OutsideSuccessRange(call.response.StatusCode) THEN "api"
    ELSE IF call.url # DeleteURL /\ call.response.body.form = "text"
    THEN "decode"
    ELSE "nil"

\* The service-info call succeeded and reported a status that is not active.
ReportsInactive(call) ==
    /\ call.url = GetInfoURL
    /\ CallFailure(call) = "nil"
    /\ call.response.body.data.Status # "active"

\* C13: an invocation whose config decoding, validation, secret resolution
\* or client construction fails has returned that error without making a
\* remote call; a remote call that fails, or a service that is not active,
\* is the last call of the invocation, which has returned the error that
\* names the call and its cause; an invocation that returns nil has had no
\* failing step.
C13_FirstFailureReturned ==
    LET me == inv[Solo]
    IN  me.pc # "idle" =>
            /\ SetupFailure(me) # "nil"
                => /\ me.pc = "done"
                   /\ me.err.kind = SetupFailure(me)
                   /\ me.calls = <<>>
                   /\ SetupFailure(me) \in {"config-decode", "missing-field"}
                        => me.lookups = <<>>
            /\ \A i \in 1..Len(me.calls) :
                /\ CallFailure(me.calls[i]) # "nil"
                    => /\ i = Len(me.calls)
                       /\ me.pc = "done"
                       /\ me.err.kind = "call-failed"
                       /\ me.err.url = me.calls[i].url
                       /\ me.err.cause.kind = CallFailure(me.calls[i])
                /\ ReportsInactive(me.calls[i])
                    => /\ i = Len(me.calls)
                       /\ me.pc = "done"
                       /\ me.err = NotDeployed(me.domain)
            /\ (me.pc = "done" /\ me.err = NoErr)
                => /\ SetupFailure(me) = "nil"
                   /\ \A i \in 1..Len(me.calls) :
                        /\ CallFailure(me.calls[i]) = "nil"
                        /\ ~ReportsInactive(me.calls[i])

\* C13 witness: a Present whose service-info call succeeded and whose create
\* call was answered with an API error has returned that error.
C13_Witness ==
    LET me == inv[Solo]
    IN  /\ me.op = "Present"
        /\ me.pc = "done"
        /\ Len(me.calls) = 2
        /\ CallFailure(me.calls[1]) = "nil"
        /\ CallFailure(me.calls[2]) = "api"
        /\ me.err.kind = "call-failed"
        /\ me.err.url = CreateURL
        /\ me.err.cause.kind = "api"

(***************************************************************************)
(* Claims about concurrent invocations                                     *)
(***************************************************************************)
\* The error of a CleanUp whose delete call the provider refused because it
\* does not hold the entity.
DeleteOfMissingRecord ==
    CallFailed("DELETE", DeleteURL,
               NewAPIError(NotFoundAnswer.StatusCode,
                           NotFoundAnswer.body.message,
                           NotFoundAnswer.queryID))

\* C14: with CleanUp invocations of one challenge running concurrently, no
\* invocation returns an error because the record it was given by the list
\* call has been removed by another invocation before its delete call.
C14_AbsenceIsSuccess ==
    \A p \in Procs :
        (inv[p].op = "CleanUp" /\ inv[p].pc = "done")
            => inv[p].err # DeleteOfMissingRecord

(***************************************************************************)
(* Claims about the parameters of the create call                          *)
(***************************************************************************)
\* C15: for every resolved FQDN (of well-formed labels), the record name
\* Present sends to the create endpoint is the FQDN without its trailing dot,
\* the service name is getDomain of the FQDN and the value is the
\* challenge's proof value.
C15_CreateNameIsFqdn ==
    (dp.pc = "named" /\ dp.fqdn \notin OddNames) =>
        /\ dp.params.Name = StripTrailingDot(dp.fqdn)
        /\ dp.params.ServiceName = getDomain(dp.fqdn)
        /\ dp.params.Value = dp.key
        /\ dp.params.FieldType = "TXT"

(***************************************************************************)
(* Claims about the state concurrent invocations share                     *)
(***************************************************************************)
\* The Client ddClient builds for the challenge of an invocation.
OwnClient(me) == ddClient(me.ch, me.getOk, me.configOk).client

NoDelta == "none"

\* time.Since(*ddTime): the clock is read by each call for itself, so two
\* calls need not compute the same duration.
Deltas == {"d1", "d2"}

\* The errors c.Get("/auth/time", &timestamp) returns.
GetTimeErrs == {TransportErr, ReadErr, DecodeErr}

\* A call of getTimeDelta: where it is, its locals d and err, whether Load
\* gave it a duration (ok), and whether it has sent a /auth/time request.
NoTimeDeltaCall ==
    [pc |-> "idle", d |-> NoDelta, err |-> NoErr, ok |-> FALSE,
     asked |-> FALSE]

\* The Client's timeDelta field, the calls under way, and their history: the
\* number of /auth/time requests that succeeded and the durations returned
\* with a nil error.
InitTimeDelta ==
    /\ td = [pc |-> "on", timeDelta |-> NoDelta,
             calls |-> [p \in Procs |-> NoTimeDeltaCall],
             fetched |-> 0, returned |-> {}]
    /\ dp = ParserIdle
    /\ ur = UnmarshalIdle
    /\ rq = RequestIdle
    /\ SolverOff

\* d, ok := c.timeDelta.Load().(time.Duration); if ok { return d, nil }
LoadTimeDelta(p) ==
    /\ td.pc = "on"
    /\ td.calls[p].pc = "idle"
    /\ td' = [td EXCEPT !.calls[p] =
                IF td.timeDelta # NoDelta
                THEN [NoTimeDeltaCall EXCEPT !.pc = "return", !.ok = TRUE,
                                             !.d = td.timeDelta]
                ELSE [NoTimeDeltaCall EXCEPT !.pc = "getTime"]]
    /\ UNCHANGED <<dp, ur, rq, solverVars>>

\* ddTime, err := c.getTime(); if err != nil { return 0, err };
\* d = time.Since(*ddTime)
GetTime(p) ==
    /\ td.pc = "on"
    /\ td.calls[p].pc = "getTime"
    /\ \E err \in {NoErr} \cup GetTimeErrs, d \in Deltas :
        td' = IF err = NoErr
              THEN [td EXCEPT !.calls[p].pc = "store",
                              !.calls[p].asked = TRUE,
                              !.calls[p].d = d,
                              !.fetched = @ + 1]
              ELSE [td EXCEPT !.calls[p].pc = "return",
                              !.calls[p].asked = TRUE,
                              !.calls[p].err = err]
    /\ UNCHANGED <<dp, ur, rq, solverVars>>

\* c.timeDelta.Store(d)
StoreTimeDelta(p) ==
    /\ td.pc = "on"
    /\ td.calls[p].pc = "store"
    /\ td' = [td EXCEPT !.timeDelta = td.calls[p].d,
                        !.calls[p].pc = "return"]
    /\ UNCHANGED <<dp, ur, rq, solverVars>>

\* return d, nil or return 0, err: the caller has the result.
ReturnTimeDelta(p) ==
    /\ td.pc = "on"
    /\ td.calls[p].pc = "return"
    /\ td' = [td EXCEPT !.calls[p] = NoTimeDeltaCall,
                        !.returned =
                            IF td.calls[p].err = NoErr
                            THEN @ \cup {td.calls[p].d}
                            ELSE @]
    /\ UNCHANGED <<dp, ur, rq, solverVars>>

NextTimeDelta ==
    \/ \E p \in Procs : LoadTimeDelta(p)
    \/ \E p \in Procs : GetTime(p)
    \/ \E p \in Procs : StoreTimeDelta(p)
    \/ \E p \in Procs : ReturnTimeDelta(p)

SpecTimeDelta == InitTimeDelta /\ [][NextTimeDelta]_vars

(***************************************************************************)
(* Claims about the time-delta cache                                       *)
(***************************************************************************)
\* C17: under every interleaving of getTimeDelta calls on one Client, at
\* most one /auth/time request succeeds, the calls that return a nil error
\* all return the same duration, a call that begins once a duration is
\* stored returns it without a request, and a call whose request fails
\* leaves the stored value as it was.
C17_ComputeOnce ==
    /\ [](td.pc = "on" =>
            /\ td.fetched <= 1
            /\ Cardinality(td.returned
                    \cup {td.calls[p].d : p \in {q \in Procs :
                            /\ td.calls[q].pc = "return"
                            /\ td.calls[q].err = NoErr}}) <= 1
            /\ \A p \in Procs :
                    td.calls[p].ok => /\ ~td.calls[p].asked
                                      /\ td.calls[p].d = td.timeDelta)
    /\ [][\A p \in Procs :
            (td.pc = "on" /\ td'.calls[p].err # NoErr
                /\ td.calls[p].err = NoErr)
                    => td'.timeDelta = td.timeDelta]_vars

====
